---- MODULE Spec2Model ----
(***************************************************************************)
(* The upload gateway of index.js: POST /upload (multer, then a put to the *)
(* object store) and GET /list-files (a list of the bucket, sorted by      *)
(* LastModified and cut to three entries).                                 *)
(*                                                                         *)
(* Every request is a process of three steps: the synchronous part of the  *)
(* handler up to its await, the object store serving the command, and the  *)
(* handler's continuation that answers.  Requests interleave at the await. *)
(* Strings that the code builds (the object key, the URLs) are sequences   *)
(* of characters, built the way the template literals build them.          *)
(*                                                                         *)
(* Two more specifications share the module: StartSpec, the start-up of    *)
(* the process (PORT, startServer and its port fallback, module.exports)   *)
(* with the desktop shell of main.js, and PageSpec, the loadFiles function *)
(* of the gallery script that the page carries.                            *)
(***************************************************************************)
EXTENDS Integers, Sequences, FiniteSets, TLC

VARIABLES bucket, version, now, pc, req, local, reply, res, served,
          env, occupied, servers, exported, thrown, win, quit,
          loads, galleryGrid

\* The request handlers' state, the state of the start-up (index.js as a
\* module, and the desktop shell of main.js), and the state of the page's
\* gallery script.
handlerVars == <<bucket, version, now, pc, req, local, reply, res, served>>
startVars == <<env, occupied, servers, exported, thrown, win, quit>>
pageVars == <<loads, galleryGrid>>

vars == <<bucket, version, now, pc, req, local, reply, res, served,
          env, occupied, servers, exported, thrown, win, quit,
          loads, galleryGrid>>

(***************************************************************************)
(* Bounds of the model.                                                    *)
(***************************************************************************)
\* Requests handled in one run (they may all be in flight at once).
MaxReq == 2
\* Milliseconds the clock advances during a run.
MaxTicks == 1

Req == 1..MaxReq

\* Date.now() when the process starts serving; a value with a fixed number
\* of digits, as the 13-digit millisecond timestamps of the present are.
StartTime == 200

(***************************************************************************)
(* Program constants.                                                      *)
(***************************************************************************)
\* multer limits.fileSize
fileSize == 5 * 1024 * 1024
\* fileFilter's allowedTypes
allowedTypes == {"image/jpeg", "image/png", "image/gif"}
\* ListObjectsV2Command MaxKeys
MaxKeys == 100
\* .slice(0, 3)
SliceEnd == 3
\* process.env.R2_PUBLIC_URL
R2_PUBLIC_URL == <<"c", "d", "n">>

\* The texts of the JSON answers (the source's are Chinese; these are their
\* translations, one per text of the source).
MsgNoFile == "no file was uploaded"
MsgUploadOk == "file uploaded"
MsgUploadFailed == "file upload failed"
MsgListFailed == "listing the files failed"
MsgUnsupportedType == "unsupported file type"
MsgFileTooLarge == "file size exceeds the limit"
\* multer's message for LIMIT_UNEXPECTED_FILE
MsgUnexpectedField == "Unexpected field"

CacheHeaders ==
    [CacheControl |-> "no-cache, no-store, must-revalidate",
     Pragma |-> "no-cache", Expires |-> "0"]
NoHeaders == [CacheControl |-> "", Pragma |-> "", Expires |-> ""]

(***************************************************************************)
(* Strings.                                                                *)
(***************************************************************************)
DigitChars == <<"0", "1", "2", "3", "4", "5", "6", "7", "8", "9">>

\* String(n) of a non-negative integer: its decimal digits.
RECURSIVE Digits(_)
Digits(n) ==
    IF n < 10 THEN <<DigitChars[n + 1]>>
    ELSE Digits(n \div 10) \o <<DigitChars[(n % 10) + 1]>>

\* The code unit of a character (the characters that occur in keys).
CharCode(c) ==
    CASE c = "-" -> 45
      [] c = "." -> 46
      [] c = "0" -> 48 [] c = "1" -> 49 [] c = "2" -> 50 [] c = "3" -> 51
      [] c = "4" -> 52 [] c = "5" -> 53 [] c = "6" -> 54 [] c = "7" -> 55
      [] c = "8" -> 56 [] c = "9" -> 57
      [] c = "a" -> 97 [] c = "b" -> 98 [] c = "c" -> 99
      [] OTHER -> 122

\* k1 < k2 in the store's key order (binary, character by character).
RECURSIVE KeyLess(_, _)
KeyLess(k1, k2) ==
    IF k2 = <<>> THEN FALSE
    ELSE IF k1 = <<>> THEN TRUE
    ELSE IF CharCode(Head(k1)) # CharCode(Head(k2))
         THEN CharCode(Head(k1)) < CharCode(Head(k2))
    ELSE KeyLess(Tail(k1), Tail(k2))

\* Mutant: the key built from a coarser timestamp (tens of milliseconds).
FileName_Coarse(t, originalname) ==
    Digits(t \div 10) \o <<"-">> \o originalname

\* `${Date.now()}-${file.originalname}`
FileName(t, originalname) == Digits(t) \o <<"-">> \o originalname

\* `https://${process.env.R2_PUBLIC_URL}/${key}`
PublicUrl(key) == <<"https://">> \o R2_PUBLIC_URL \o <<"/">> \o key

(***************************************************************************)
(* The object store: the bucket is the sequence of its objects in key      *)
(* order, one object per key.                                              *)
(***************************************************************************)
Undefined == [undefined |-> TRUE]

\* PutObject: the object replaces the one of its key, or takes its place in
\* the key order.
PutObject(objs, o) ==
    LET n == Len(objs)
        before == Cardinality({i \in 1..n : KeyLess(objs[i].Key, o.Key)})
    IN  IF \E i \in 1..n : objs[i].Key = o.Key
        THEN [i \in 1..n |-> IF objs[i].Key = o.Key THEN o ELSE objs[i]]
        ELSE [i \in 1..(n + 1) |->
                 IF i <= before THEN objs[i]
                 ELSE IF i = before + 1 THEN o
                 ELSE objs[i - 1]]

HasKey(objs, k) == \E i \in 1..Len(objs) : objs[i].Key = k

ObjectAt(objs, k) == objs[CHOOSE i \in 1..Len(objs) : objs[i].Key = k]

\* The objects a bucket held before the process started: n earlier uploads,
\* one per millisecond, the last one just before StartTime.
PriorBucket(n) ==
    [i \in 1..n |->
        [Key |-> FileName(StartTime - n - 1 + i, <<"a">>),
         Body |-> 0,
         ContentType |-> "image/png",
         Size |-> 2048,
         LastModified |-> StartTime - n - 1 + i]]

\* A bucket that holds two objects written within one millisecond, just
\* before StartTime: two earlier uploads, of the names a and b.
TiedBucket ==
    [i \in 1..2 |->
        [Key |-> FileName(StartTime - 1, IF i = 1 THEN <<"a">> ELSE <<"b">>),
         Body |-> 0,
         ContentType |-> "image/png",
         Size |-> 2048,
         LastModified |-> StartTime - 1]]

(***************************************************************************)
(* multer: upload.single('file') with limits.fileSize and the fileFilter.  *)
(* A request body is the sequence of its file parts, each with the field   *)
(* name, the declared file name and media type, and the payload.           *)
(***************************************************************************)
NoFile == [nofile |-> TRUE]
NoError == [name |-> "none", code |-> "", message |-> ""]

MulterError(code, message) ==
    [name |-> "MulterError", code |-> code, message |-> message]
Error(message) == [name |-> "Error", code |-> "", message |-> message]

\* Mutant: a fileFilter that lets every type through.
fileFilter_AcceptsAll(file) == NoError

\* fileFilter: cb(null, true) for an allowed type, cb(new Error(..)) otherwise.
fileFilter(file) ==
    IF file.mimetype \in allowedTypes THEN NoError
    ELSE Error(MsgUnsupportedType)

\* Mutant: the limit written with the wrong unit factors.
FileTooLarge_UnitSlip(file) == file.size > 50 * 5024 * 5024

\* limits.fileSize: a payload over the limit is cut off and LIMIT_FILE_SIZE
\* raised.  (A payload of exactly the limit is not among the inputs of this
\* model: what happens to it depends on the multipart parser's release.)
FileTooLarge(file) == file.size > fileSize

\* Mutant: the payload read, under the size limit, before the fileFilter is
\* asked.
RECURSIVE MulterParts_SizeFirst(_, _, _)
MulterParts_SizeFirst(parts, filesLeft, file) ==
    IF parts = <<>> THEN [err |-> NoError, file |-> file]
    ELSE LET p == Head(parts) IN
         IF p.fieldname # "file" \/ filesLeft <= 0
         THEN [err |-> MulterError("LIMIT_UNEXPECTED_FILE", MsgUnexpectedField),
               file |-> NoFile]
         ELSE IF FileTooLarge(p)
         THEN [err |-> MulterError("LIMIT_FILE_SIZE", "File too large"),
               file |-> NoFile]
         ELSE IF fileFilter(p) # NoError
         THEN [err |-> fileFilter(p), file |-> NoFile]
         ELSE MulterParts_SizeFirst(Tail(parts), filesLeft - 1, p)

\* The parts in their order: a file in a field that expects no (more) file is
\* LIMIT_UNEXPECTED_FILE, then the fileFilter is asked, then the payload is
\* read into memory under the size limit.  The first error aborts.
RECURSIVE MulterParts(_, _, _)
MulterParts(parts, filesLeft, file) ==
    IF parts = <<>> THEN [err |-> NoError, file |-> file]
    ELSE LET p == Head(parts) IN
         IF p.fieldname # "file" \/ filesLeft <= 0
         THEN [err |-> MulterError("LIMIT_UNEXPECTED_FILE", MsgUnexpectedField),
               file |-> NoFile]
         ELSE IF fileFilter(p) # NoError
         THEN [err |-> fileFilter(p), file |-> NoFile]
         ELSE IF FileTooLarge(p)
         THEN [err |-> MulterError("LIMIT_FILE_SIZE", "File too large"),
               file |-> NoFile]
         ELSE MulterParts(Tail(parts), filesLeft - 1, p)

\* Mutant: upload.array('file', 2) in place of upload.single('file'), the
\* last file taken.
UploadSingle_Array(parts) == MulterParts(parts, 2, NoFile)

\* upload.single('file'): one file at most, under the field 'file'.
UploadSingle(parts) == MulterParts(parts, 1, NoFile)

(***************************************************************************)
(* Responses.                                                              *)
(***************************************************************************)
NoResponse == [status |-> 0, headers |-> NoHeaders, body |-> Undefined]

Json(status, headers, body) ==
    [status |-> status, headers |-> headers, body |-> body]

\* The error-handling middleware.
ErrorMiddleware(error) ==
    IF error.name = "MulterError" /\ error.code = "LIMIT_FILE_SIZE"
    THEN Json(400, NoHeaders, [error |-> MsgFileTooLarge])
    ELSE Json(400, NoHeaders, [error |-> error.message])

\* Mutant: without the req.file check the handler throws on the missing
\* file and its catch answers.
NoFileResponse_Unchecked == Json(500, NoHeaders, [error |-> MsgUploadFailed])

\* if (!req.file) return res.status(400).json(..)
NoFileResponse == Json(400, NoHeaders, [error |-> MsgNoFile])

\* Mutant: a command that does not pass the content type on.
PutCommand_NoContentType(file, fileName) ==
    [Key |-> fileName, Body |-> file.buffer,
     ContentType |-> "application/octet-stream", Size |-> file.size]

\* The PutObjectCommand of the upload handler.
PutCommand(file, fileName) ==
    [Key |-> fileName, Body |-> file.buffer, ContentType |-> file.mimetype,
     Size |-> file.size]

\* Mutant: a handler that answers success whatever the put returned.
UploadResponse_IgnoresFailure(fileName, rep) ==
    Json(200, NoHeaders,
         [message |-> MsgUploadOk, fileName |-> fileName,
          fileUrl |-> PublicUrl(fileName)])

\* Mutant: a catch that answers with the error it caught.
UploadResponse_LeaksCause(fileName, rep) ==
    IF rep.kind = "ok"
    THEN Json(200, NoHeaders,
              [message |-> MsgUploadOk, fileName |-> fileName,
               fileUrl |-> PublicUrl(fileName)])
    ELSE Json(500, NoHeaders, [error |-> rep.error])

\* The answer of the upload handler once the put has returned.
UploadResponse(fileName, rep) ==
    IF rep.kind = "ok"
    THEN Json(200, NoHeaders,
              [message |-> MsgUploadOk, fileName |-> fileName,
               fileUrl |-> PublicUrl(fileName)])
    ELSE Json(500, NoHeaders, [error |-> MsgUploadFailed])

(***************************************************************************)
(* The listing: sort by LastModified descending, keep three, map.          *)
(***************************************************************************)
\* Mutant: the comparator with a and b the other way round.
Compare_Ascending(a, b) ==
    LET timeA == a.LastModified
        timeB == b.LastModified
    IN  timeA - timeB

\* The comparator: timeA - timeB with timeA taken from b and timeB from a.
Compare(a, b) ==
    LET timeA == b.LastModified
        timeB == a.LastModified
    IN  timeA - timeB

\* Array.prototype.sort: a stable sort, a before b where the comparator is
\* negative, elements that compare equal in their order in the array.
Sort(s) == SortSeq(s, LAMBDA a, b : Compare(a, b) < 0)

\* Mutant: no slice.
Slice_Whole(s, end) == s

\* .slice(0, end)
Slice(s, end) == SubSeq(s, 1, IF Len(s) < end THEN Len(s) ELSE end)

\* Mutant: the url built from the bucket's base alone.
ListEntry_UrlWithoutKey(file) ==
    [name |-> file.Key, url |-> PublicUrl(<<>>), size |-> file.Size,
     lastModified |-> file.LastModified]

\* .map(file => ({name, url, size, lastModified}))
ListEntry(file) ==
    [name |-> file.Key, url |-> PublicUrl(file.Key), size |-> file.Size,
     lastModified |-> file.LastModified]

\* response.Contents || []
Files(response) ==
    IF "Contents" \in DOMAIN response THEN response.Contents ELSE <<>>

SortedFiles(files) ==
    LET top == Slice(Sort(files), SliceEnd)
    IN  [i \in 1..Len(top) |-> ListEntry(top[i])]

\* Mutant: files = response.Contents, without the "|| []": sorting the
\* missing Contents throws, and the catch answers.
ListResponse_NoDefault(rep) ==
    IF rep.kind = "ok" /\ "Contents" \in DOMAIN rep.response
    THEN Json(200, NoHeaders, SortedFiles(rep.response.Contents))
    ELSE Json(500, NoHeaders, [error |-> MsgListFailed])

\* The status and body of the listing handler's answer once the list has
\* returned (its headers were set before the await).
ListResponse(rep) ==
    IF rep.kind = "ok"
    THEN Json(200, NoHeaders, SortedFiles(Files(rep.response)))
    ELSE Json(500, NoHeaders, [error |-> MsgListFailed])

(***************************************************************************)
(* ListObjectsV2 as the store serves it.                                   *)
(***************************************************************************)
\* How many objects one list response may carry in an order of the store's
\* choosing; a longer page comes in key order, as the S3 protocol lists.
MaxShuffle == 3

Orders(n) ==
    {f \in [1..n -> 1..n] : \A i, j \in 1..n : f[i] = f[j] => i = j}

\* The pages the store may answer with: at most MaxKeys objects, the first
\* ones in key order.  A store with no object sends a response without Contents.
ListPages(objs) ==
    LET page == SubSeq(objs, 1, IF Len(objs) < MaxKeys THEN Len(objs) ELSE MaxKeys)
        n == Len(page)
    IN  IF n = 0 THEN {[KeyCount |-> 0]}
        ELSE IF n > MaxShuffle THEN {[Contents |-> page, KeyCount |-> n]}
        ELSE {[Contents |-> [i \in 1..n |-> page[f[i]]], KeyCount |-> n] :
                 f \in Orders(n)}

StoreErrors == {"network", "auth"}

NoReply == [kind |-> "none"]

(***************************************************************************)
(* The requests the clients send.                                          *)
(***************************************************************************)
Part(fieldname, originalname, mimetype, size, buffer) ==
    [fieldname |-> fieldname, originalname |-> originalname,
     mimetype |-> mimetype, size |-> size, buffer |-> buffer]

\* Payload sizes: 2 KB, and one byte over the limit.
Sizes == {2048, fileSize + 1}

\* The bodies request r may carry: no file; one file under 'file', of an
\* allowed or a disallowed type, small or oversized; a file under another
\* field; two files under 'file'.  The payload is r's own, so that the bytes
\* of different requests can be told apart.
Bodies(r) ==
    {<<>>}
    \cup {<<Part("file", <<"a">>, t, s, r)>> :
            t \in {"image/png", "image/webp"}, s \in Sizes}
    \cup {<<Part("file", <<"b">>, "image/gif", 2048, r)>>}
    \cup {<<Part("avatar", <<"a">>, "image/png", 2048, r)>>}
    \cup {<<Part("file", <<"a">>, "image/png", 2048, r),
            Part("file", <<"b">>, "image/png", 2048, r)>>}

NoRequest == [method |-> "none"]
NoLocal == [fileName |-> <<>>, at |-> 0]

(***************************************************************************)
(* JavaScript values of the start-up code: a number, a string (a sequence  *)
(* of characters) or undefined, with the operators the code applies.       *)
(***************************************************************************)
JsUndefined == [type |-> "undefined", n |-> 0, s |-> <<>>]
Num(n) == [type |-> "number", n |-> n, s |-> <<>>]
Str(s) == [type |-> "string", n |-> 0, s |-> s]

\* a || b: a unless it is falsy (undefined, 0, the empty string).
Truthy(v) ==
    CASE v.type = "number" -> v.n # 0
      [] v.type = "string" -> v.s # <<>>
      [] OTHER -> FALSE

Or(a, b) == IF Truthy(a) THEN a ELSE b

JsString(v) == IF v.type = "string" THEN v.s ELSE Digits(v.n)

\* The number a string of decimal digits denotes.
RECURSIVE ParseDigits(_)
ParseDigits(s) ==
    IF s = <<>> THEN 0
    ELSE 10 * ParseDigits(SubSeq(s, 1, Len(s) - 1))
         + ((CHOOSE i \in 1..10 : DigitChars[i] = s[Len(s)]) - 1)

ToNumber(v) == IF v.type = "string" THEN ParseDigits(v.s) ELSE v.n

\* a + b: the sum of two numbers; the concatenation when either is a string.
Plus(a, b) ==
    IF a.type = "string" \/ b.type = "string"
    THEN Str(JsString(a) \o JsString(b))
    ELSE Num(a.n + b.n)

(***************************************************************************)
(* Start-up: PORT, startServer, module.exports, and the desktop shell.     *)
(***************************************************************************)
\* process.env.PORT || 3000
DefaultPort == 3000
PORT(e) == Or(e.PORT, Num(DefaultPort))

\* The ports app.listen accepts: any other value of port makes it throw.
MaxPort == 65535
ValidPort(port) == ToNumber(port) \in 0..MaxPort

\* The values PORT may have in the environment, and the ports that other
\* processes may hold.
EnvPorts == {JsUndefined, Str(<<"3", "0", "0", "0">>), Str(<<"3", "0", "0", "1">>)}
OtherPorts == {3000, 3001, 30001}

\* app.listen(port): a new server instance, binding.
NewServer(port) == [port |-> port, state |-> "binding", code |-> ""]

\* startServer(port + 1) in the 'error' handler: the port the next attempt
\* is given.
NextPort(port) == Plus(port, Num(1))

\* The 'error' handler on EADDRINUSE: startServer(port + 1), whose
\* app.listen throws for a port it does not accept.
Retry(list, i) ==
    LET next == NextPort(list[i].port)
        failed == [list EXCEPT ![i].state = "failed", ![i].code = "EADDRINUSE"]
    IN  IF ValidPort(next)
        THEN [servers |-> Append(failed, NewServer(next)), thrown |-> FALSE]
        ELSE [servers |-> failed, thrown |-> TRUE]

\* win.loadURL('http://localhost:3000')
ShellUrl == [host |-> "localhost", port |-> 3000]
NoUrl == [host |-> "", port |-> 0]

\* The state of a process that serves requests: PORT unset, port 3000 free,
\* the one server listening on it, no desktop shell.
Serving ==
    /\ env = [PORT |-> JsUndefined]
    /\ occupied = {}
    /\ servers = <<[port |-> Num(DefaultPort), state |-> "listening", code |-> ""]>>
    /\ exported = 1
    /\ thrown = FALSE
    /\ win = NoUrl
    /\ quit = FALSE

(***************************************************************************)
(* The page's gallery script: loadFiles.                                   *)
(***************************************************************************)
\* loadFiles(retryCount = 3)
DefaultRetryCount == 3
\* setTimeout(.., 500)
RetryDelay == 500
\* const emptySlots = 3 - files.length
Slots == 3

\* The texts the gallery shows (translated, like the texts of the answers).
MsgLoading == "loading..."
MsgNoFiles == "no files yet"
MsgLoadFailed == "loading failed"

\* galleryGrid.innerHTML: a message, or a row of items.
Message(text) == [kind |-> "message", text |-> text, items |-> <<>>]
Items(items) == [kind |-> "items", text |-> "", items |-> items]
GalleryItem(file) == [class |-> "gallery-item", url |-> file.url]
EmptyItem == [class |-> "gallery-item empty", url |-> <<>>]

\* What fetch('/list-files?..') and response.json() give the script: no
\* response (the server cannot be reached), the listing of a bucket of n
\* objects, or the object of the 500 answer.
FetchOutcomes ==
    {[kind |-> "offline", n |-> 0], [kind |-> "error", n |-> 0]}
    \cup {[kind |-> "list", n |-> n] : n \in 0..3}

NoFetch == [kind |-> "none", type |-> "", items |-> <<>>]

Fetched(o) ==
    CASE o.kind = "offline" -> [kind |-> "rejected", type |-> "", items |-> <<>>]
      [] o.kind = "error" ->
            [kind |-> "json", type |-> "object", items |-> <<>>]
      [] OTHER ->
            [kind |-> "json", type |-> "array",
             items |-> ListResponse([kind |-> "ok",
                          response |-> [Contents |-> PriorBucket(o.n)]]).body]

\* !files.length: true of an empty array, and of an object, which has no
\* length.
NoLength(files) == files.type # "array" \/ Len(files.items) = 0

\* The try block of loadFiles after the fetch.  htmlContent is a const: the
\* "htmlContent +=" of the placeholder loop throws a TypeError, once the loop
\* is entered.
TryRender(fetched) ==
    IF fetched.kind = "rejected" THEN [threw |-> TRUE, grid |-> Message("")]
    ELSE IF NoLength(fetched)
         THEN [threw |-> FALSE, grid |-> Message(MsgNoFiles)]
    ELSE LET htmlContent == [i \in 1..Len(fetched.items) |->
                                GalleryItem(fetched.items[i])]
             emptySlots == Slots - Len(fetched.items)
         IN  IF 0 < emptySlots THEN [threw |-> TRUE, grid |-> Message("")]
             ELSE [threw |-> FALSE, grid |-> Items(htmlContent)]

\* Mutant: a catch that also tries again when retryCount is 0.
Catch_OneMore(retryCount) ==
    IF retryCount >= 0
    THEN [retry |-> TRUE, retryCount |-> retryCount - 1, delay |-> RetryDelay,
          grid |-> Message("")]
    ELSE [retry |-> FALSE, retryCount |-> retryCount, delay |-> 0,
          grid |-> Message(MsgLoadFailed)]

\* The catch block: setTimeout(() => loadFiles(retryCount - 1), 500) while
\* retryCount > 0, the failure message otherwise.
Catch(retryCount) ==
    IF retryCount > 0
    THEN [retry |-> TRUE, retryCount |-> retryCount - 1, delay |-> RetryDelay,
          grid |-> Message("")]
    ELSE [retry |-> FALSE, retryCount |-> retryCount, delay |-> 0,
          grid |-> Message(MsgLoadFailed)]

\* Calls of loadFiles() the page makes in one run: at load, after an upload,
\* when the page becomes visible again.
MaxLoads == 2
Load == 1..MaxLoads

NoLoad == [pc |-> "idle", retryCount |-> 0, attempts |-> 0,
           fetched |-> NoFetch, delay |-> 0]

\* The page as served: no call of loadFiles yet.
PageServed ==
    /\ loads = [c \in Load |-> NoLoad]
    /\ galleryGrid = Message(MsgLoading)

(***************************************************************************)
(* The state machine.                                                      *)
(*   bucket   the objects of the bucket, in key order                      *)
(*   version  the number of puts the store has executed                    *)
(*   now      the clock, as last read                                      *)
(*   pc       where each request is                                        *)
(*   req      the request as the client sent it                            *)
(*   local    the handler's variables across its await (and, as at, the    *)
(*            value Date.now() had when the handler named the object)      *)
(*   reply    the outcome of the store call, until the handler takes it    *)
(*   res      the response                                                 *)
(*   served   what the store did for the request (a record of the run,     *)
(*            kept for the properties below; no code reads it)             *)
(***************************************************************************)
NotServed == [op |-> "none"]

Init ==
    /\ bucket \in {PriorBucket(0), PriorBucket(MaxKeys), TiedBucket}
    /\ version = 0
    /\ now = StartTime
    /\ pc = [r \in Req |-> "idle"]
    /\ req = [r \in Req |-> NoRequest]
    /\ local = [r \in Req |-> NoLocal]
    /\ reply = [r \in Req |-> NoReply]
    /\ res = [r \in Req |-> NoResponse]
    /\ served = [r \in Req |-> NotServed]
    /\ Serving
    /\ PageServed

\* Requests are numbered in the order of their arrival.
Arrives(r) == pc[r] = "idle" /\ (IF r = 1 THEN TRUE ELSE pc[r - 1] # "idle")

\* The requests that have been answered.
Answered == {q \in Req : pc[q] = "done"}

\* The clock is read in two places: Date.now() in the upload handler, and
\* the store's time when it writes an object.  Between two readings it has
\* advanced by some milliseconds, perhaps none.
Elapsed == {d \in 0..MaxTicks : now + d <= StartTime + MaxTicks}

\* POST /upload, answered by the error middleware or by the handler before
\* any store call: multer failed, or left no req.file.
PostUploadRejected(r, parts) ==
    LET m == UploadSingle(parts) IN
    /\ Arrives(r)
    /\ m.err # NoError \/ m.file = NoFile
    /\ req' = [req EXCEPT ![r] = [method |-> "POST", parts |-> parts]]
    /\ res' = [res EXCEPT ![r] =
                  IF m.err # NoError THEN ErrorMiddleware(m.err)
                  ELSE NoFileResponse]
    /\ pc' = [pc EXCEPT ![r] = "done"]
    /\ UNCHANGED <<bucket, version, now, local, reply, served>>
    /\ UNCHANGED <<startVars, pageVars>>

\* POST /upload with a req.file: the handler names the object, sends the
\* PutObjectCommand and awaits.
PostUpload(r, parts, d) ==
    LET m == UploadSingle(parts) IN
    /\ Arrives(r)
    /\ m.err = NoError /\ m.file # NoFile
    /\ now' = now + d
    /\ req' = [req EXCEPT ![r] = [method |-> "POST", parts |-> parts]]
    /\ local' = [local EXCEPT ![r] =
                    [file |-> m.file,
                     fileName |-> FileName(now', m.file.originalname),
                     at |-> now']]
    /\ pc' = [pc EXCEPT ![r] = "awaitPut"]
    /\ UNCHANGED <<bucket, version, reply, res, served>>
    /\ UNCHANGED <<startVars, pageVars>>

\* Mutant: file kept in a variable of the module, which every request
\* overwrites: the put sends the file of the upload that arrived last.
StorePut_SharedFile(r, d) ==
    LET last == CHOOSE q \in Req :
                   /\ local[q].fileName # <<>>
                   /\ \A q2 \in Req : local[q2].fileName # <<>> => q2 <= q
        cmd == PutCommand(local[last].file, local[r].fileName)
        obj == [Key |-> cmd.Key, Body |-> cmd.Body,
                ContentType |-> cmd.ContentType, Size |-> cmd.Size,
                LastModified |-> now + d]
    IN
    /\ pc[r] = "awaitPut"
    /\ now' = now + d
    /\ bucket' = PutObject(bucket, obj)
    /\ version' = version + 1
    /\ served' = [served EXCEPT ![r] =
                     [op |-> "put", version |-> version',
                      object |-> ObjectAt(bucket', cmd.Key)]]
    /\ reply' = [reply EXCEPT ![r] = [kind |-> "ok"]]
    /\ pc' = [pc EXCEPT ![r] = "putReplied"]
    /\ UNCHANGED <<req, local, res>>
    /\ UNCHANGED <<startVars, pageVars>>

\* The store executes the put: the object is written under its key, with
\* the store's time as LastModified.
StorePut(r, d) ==
    LET cmd == PutCommand(local[r].file, local[r].fileName)
        obj == [Key |-> cmd.Key, Body |-> cmd.Body,
                ContentType |-> cmd.ContentType, Size |-> cmd.Size,
                LastModified |-> now + d]
    IN
    /\ pc[r] = "awaitPut"
    /\ now' = now + d
    /\ bucket' = PutObject(bucket, obj)
    /\ version' = version + 1
    /\ served' = [served EXCEPT ![r] =
                     [op |-> "put", version |-> version',
                      object |-> ObjectAt(bucket', cmd.Key)]]
    /\ reply' = [reply EXCEPT ![r] = [kind |-> "ok"]]
    /\ pc' = [pc EXCEPT ![r] = "putReplied"]
    /\ UNCHANGED <<req, local, res>>
    /\ UNCHANGED <<startVars, pageVars>>

\* The put fails (network, credentials, bucket): nothing is written.
StorePutFails(r, e) ==
    /\ pc[r] = "awaitPut"
    /\ served' = [served EXCEPT ![r] = [op |-> "failed"]]
    /\ reply' = [reply EXCEPT ![r] = [kind |-> "error", error |-> e]]
    /\ pc' = [pc EXCEPT ![r] = "putReplied"]
    /\ UNCHANGED <<bucket, version, now, req, local, res>>
    /\ UNCHANGED <<startVars, pageVars>>

\* Mutant: a catch that sends the command again instead of answering.
UploadResume_Retries(r) ==
    /\ pc[r] = "putReplied"
    /\ IF reply[r].kind = "ok"
       THEN /\ res' = [res EXCEPT ![r] =
                          UploadResponse(local[r].fileName, reply[r])]
            /\ pc' = [pc EXCEPT ![r] = "done"]
       ELSE /\ res' = res
            /\ pc' = [pc EXCEPT ![r] = "awaitPut"]
    /\ reply' = [reply EXCEPT ![r] = NoReply]
    /\ UNCHANGED <<bucket, version, now, req, local, served>>
    /\ UNCHANGED <<startVars, pageVars>>

\* The upload handler resumes after its await and answers.
UploadResume(r) ==
    /\ pc[r] = "putReplied"
    /\ res' = [res EXCEPT ![r] = UploadResponse(local[r].fileName, reply[r])]
    /\ reply' = [reply EXCEPT ![r] = NoReply]
    /\ pc' = [pc EXCEPT ![r] = "done"]
    /\ UNCHANGED <<bucket, version, now, req, local, served>>
    /\ UNCHANGED <<startVars, pageVars>>

\* GET /list-files: the handler sets the cache headers, sends the
\* ListObjectsV2Command and awaits.
GetListFiles(r) ==
    /\ Arrives(r)
    /\ req' = [req EXCEPT ![r] = [method |-> "GET", after |-> Answered]]
    /\ res' = [res EXCEPT ![r] = [NoResponse EXCEPT !.headers = CacheHeaders]]
    /\ pc' = [pc EXCEPT ![r] = "awaitList"]
    /\ UNCHANGED <<bucket, version, now, local, reply, served>>
    /\ UNCHANGED <<startVars, pageVars>>

\* The store answers the list with one page.
StoreList(r, page) ==
    /\ pc[r] = "awaitList"
    /\ served' = [served EXCEPT ![r] =
                     [op |-> "list", version |-> version,
                      total |-> Len(bucket)]]
    /\ reply' = [reply EXCEPT ![r] = [kind |-> "ok", response |-> page]]
    /\ pc' = [pc EXCEPT ![r] = "listReplied"]
    /\ UNCHANGED <<bucket, version, now, req, local, res>>
    /\ UNCHANGED <<startVars, pageVars>>

StoreListFails(r, e) ==
    /\ pc[r] = "awaitList"
    /\ served' = [served EXCEPT ![r] = [op |-> "failed"]]
    /\ reply' = [reply EXCEPT ![r] = [kind |-> "error", error |-> e]]
    /\ pc' = [pc EXCEPT ![r] = "listReplied"]
    /\ UNCHANGED <<bucket, version, now, req, local, res>>
    /\ UNCHANGED <<startVars, pageVars>>

\* Mutant: the cache headers set inside the try, after the await: the
\* answer of the catch goes without them.
ListResume_ErrorWithoutHeaders(r) ==
    /\ pc[r] = "listReplied"
    /\ res' = [res EXCEPT ![r] =
                  IF reply[r].kind = "ok"
                  THEN [ListResponse(reply[r]) EXCEPT !.headers = res[r].headers]
                  ELSE ListResponse(reply[r])]
    /\ reply' = [reply EXCEPT ![r] = NoReply]
    /\ pc' = [pc EXCEPT ![r] = "done"]
    /\ UNCHANGED <<bucket, version, now, req, local, served>>
    /\ UNCHANGED <<startVars, pageVars>>

\* The listing handler resumes after its await and answers.
ListResume(r) ==
    /\ pc[r] = "listReplied"
    /\ res' = [res EXCEPT ![r] =
                  [ListResponse(reply[r]) EXCEPT !.headers = res[r].headers]]
    /\ reply' = [reply EXCEPT ![r] = NoReply]
    /\ pc' = [pc EXCEPT ![r] = "done"]
    /\ UNCHANGED <<bucket, version, now, req, local, served>>
    /\ UNCHANGED <<startVars, pageVars>>

Next ==
    \/ \E r \in Req : \E parts \in Bodies(r) : PostUploadRejected(r, parts)
    \/ \E r \in Req, d \in Elapsed : \E parts \in Bodies(r) :
          PostUpload(r, parts, d)
    \/ \E r \in Req, d \in Elapsed : StorePut(r, d)
    \/ \E r \in Req, e \in StoreErrors : StorePutFails(r, e)
    \/ \E r \in Req : UploadResume(r)
    \/ \E r \in Req : GetListFiles(r)
    \/ \E r \in Req :
          pc[r] = "awaitList" /\ \E page \in ListPages(bucket) : StoreList(r, page)
    \/ \E r \in Req, e \in StoreErrors : StoreListFails(r, e)
    \/ \E r \in Req : ListResume(r)

Spec == Init /\ [][Next]_vars

(***************************************************************************)
(* The start-up of the process: index.js evaluated as a module (PORT,      *)
(* startServer, module.exports), the outcomes of its listen calls, and the *)
(* desktop shell of main.js, which requires index.js, loads the page into  *)
(* its window and closes the exported server on before-quit.  The outcome  *)
(* of a listen call is delivered on the process's next tick, before any    *)
(* event of the shell.                                                     *)
(***************************************************************************)
\* No request has arrived.
HandlersIdle ==
    /\ bucket = PriorBucket(0)
    /\ version = 0
    /\ now = StartTime
    /\ pc = [r \in Req |-> "idle"]
    /\ req = [r \in Req |-> NoRequest]
    /\ local = [r \in Req |-> NoLocal]
    /\ reply = [r \in Req |-> NoReply]
    /\ res = [r \in Req |-> NoResponse]
    /\ served = [r \in Req |-> NotServed]

\* index.js evaluated: const server = startServer(currentPort);
\* module.exports = server.
StartInit ==
    /\ HandlersIdle
    /\ env \in [PORT : EnvPorts]
    /\ occupied \in SUBSET OtherPorts
    /\ servers = <<NewServer(PORT(env))>>
    /\ exported = 1
    /\ thrown = FALSE
    /\ win = NoUrl
    /\ quit = FALSE
    /\ PageServed

\* Port n is held by another process or by a listening server of this one.
InUse(n) ==
    \/ n \in occupied
    \/ \E i \in 1..Len(servers) :
          servers[i].state = "listening" /\ ToNumber(servers[i].port) = n

Starting == \E i \in 1..Len(servers) : servers[i].state = "binding"

\* The listen callback: the server is bound.
ServerListening(i) ==
    /\ ~quit
    /\ servers[i].state = "binding"
    /\ ~InUse(ToNumber(servers[i].port))
    /\ servers' = [servers EXCEPT ![i].state = "listening"]
    /\ UNCHANGED <<env, occupied, exported, thrown, win, quit>>
    /\ UNCHANGED <<handlerVars, pageVars>>

\* 'error' with code EADDRINUSE: startServer(port + 1); its return value is
\* not used.
ServerAddrInUse(i) ==
    /\ ~quit
    /\ servers[i].state = "binding"
    /\ InUse(ToNumber(servers[i].port))
    /\ servers' = Retry(servers, i).servers
    /\ thrown' = Retry(servers, i).thrown
    /\ UNCHANGED <<env, occupied, exported, win, quit>>
    /\ UNCHANGED <<handlerVars, pageVars>>

\* 'error' with another code: console.error, and nothing else.
ServerListenError(i) ==
    /\ ~quit
    /\ servers[i].state = "binding"
    /\ servers' = [servers EXCEPT ![i].state = "failed", ![i].code = "EACCES"]
    /\ UNCHANGED <<env, occupied, exported, thrown, win, quit>>
    /\ UNCHANGED <<handlerVars, pageVars>>

\* createWindow's timer: win.loadURL('http://localhost:3000').
LoadURL ==
    /\ ~quit /\ ~Starting
    /\ win = NoUrl
    /\ win' = ShellUrl
    /\ UNCHANGED <<env, occupied, servers, exported, thrown, quit>>
    /\ UNCHANGED <<handlerVars, pageVars>>

\* app.on('before-quit'): server.close() on what index.js exports; close on
\* a server that is not listening closes nothing.
BeforeQuit ==
    /\ ~quit /\ ~Starting
    /\ quit' = TRUE
    /\ servers' = IF servers[exported].state = "listening"
                  THEN [servers EXCEPT ![exported].state = "closed"]
                  ELSE servers
    /\ UNCHANGED <<env, occupied, exported, thrown, win>>
    /\ UNCHANGED <<handlerVars, pageVars>>

StartNext ==
    \/ \E i \in 1..Len(servers) : ServerListening(i)
    \/ \E i \in 1..Len(servers) : ServerAddrInUse(i)
    \/ \E i \in 1..Len(servers) : ServerListenError(i)
    \/ LoadURL
    \/ BeforeQuit

StartSpec == StartInit /\ [][StartNext]_vars

(***************************************************************************)
(* The gallery script in the page: each call of loadFiles() is a chain of  *)
(* invocations, one per attempt, that share galleryGrid.                   *)
(***************************************************************************)
PageInit ==
    /\ HandlersIdle
    /\ Serving
    /\ PageServed

\* loadFiles(): the first invocation of a chain, up to its await of fetch.
CallLoadFiles(c) ==
    /\ loads[c].pc = "idle"
    /\ (IF c = 1 THEN TRUE ELSE loads[c - 1].pc # "idle")
    /\ loads' = [loads EXCEPT ![c] =
                    [pc |-> "fetching", retryCount |-> DefaultRetryCount,
                     attempts |-> 1, fetched |-> NoFetch, delay |-> 0]]
    /\ UNCHANGED galleryGrid
    /\ UNCHANGED <<handlerVars, startVars>>

\* fetch and response.json() settle.
FetchSettles(c, o) ==
    /\ loads[c].pc = "fetching"
    /\ loads' = [loads EXCEPT ![c].pc = "settled", ![c].fetched = Fetched(o)]
    /\ UNCHANGED galleryGrid
    /\ UNCHANGED <<handlerVars, startVars>>

\* The invocation resumes: the rest of the try block, or the catch block.
LoadFilesResume(c) ==
    LET try == TryRender(loads[c].fetched)
        catch == Catch(loads[c].retryCount)
    IN
    /\ loads[c].pc = "settled"
    /\ IF ~try.threw
       THEN /\ galleryGrid' = try.grid
            /\ loads' = [loads EXCEPT ![c].pc = "returned",
                                      ![c].fetched = NoFetch]
       ELSE IF catch.retry
       THEN /\ galleryGrid' = galleryGrid
            /\ loads' = [loads EXCEPT ![c].pc = "waiting",
                                      ![c].delay = catch.delay,
                                      ![c].retryCount = catch.retryCount,
                                      ![c].fetched = NoFetch]
       ELSE /\ galleryGrid' = catch.grid
            /\ loads' = [loads EXCEPT ![c].pc = "failed",
                                      ![c].fetched = NoFetch]
    /\ UNCHANGED <<handlerVars, startVars>>

\* The timer fires: loadFiles(retryCount - 1), up to its await of fetch.
TimerFires(c) ==
    /\ loads[c].pc = "waiting"
    /\ loads' = [loads EXCEPT ![c].pc = "fetching", ![c].delay = 0,
                              ![c].attempts = @ + 1]
    /\ UNCHANGED galleryGrid
    /\ UNCHANGED <<handlerVars, startVars>>

PageNext ==
    \/ \E c \in Load : CallLoadFiles(c)
    \/ \E c \in Load, o \in FetchOutcomes : FetchSettles(c, o)
    \/ \E c \in Load : LoadFilesResume(c)
    \/ \E c \in Load : TimerFires(c)

PageSpec == PageInit /\ [][PageNext]_vars

\* The browser settles every fetch and fires every timer, and the page makes
\* its calls: no step that can be taken is put off for ever.
FairPageSpec ==
    /\ PageSpec
    /\ \A c \in Load :
          /\ WF_vars(CallLoadFiles(c))
          /\ WF_vars(\E o \in FetchOutcomes : FetchSettles(c, o))
          /\ WF_vars(LoadFilesResume(c))
          /\ WF_vars(TimerFires(c))

(***************************************************************************)
(* Properties.                                                             *)
(***************************************************************************)
IsUpload(r) == req[r].method = "POST"
IsList(r) == req[r].method = "GET"
Done(r) == pc[r] = "done"
Parts(r) == req[r].parts

\* The public base URL, as configured: https://<R2_PUBLIC_URL>/
PublicBase == <<"https://">> \o R2_PUBLIC_URL \o <<"/">>

\* One file, under 'file', of an allowed type and below the size limit.
GoodUpload(r) ==
    /\ IsUpload(r)
    /\ Len(Parts(r)) = 1
    /\ Parts(r)[1].fieldname = "file"
    /\ Parts(r)[1].mimetype \in {"image/jpeg", "image/png", "image/gif"}
    /\ Parts(r)[1].size < 5 * 1024 * 1024

\* C1: an upload of one allowed, small enough file whose put succeeds is
\* answered 200 with {message, fileName, fileUrl}; the put stored the
\* uploaded bytes with the declared content type under the key fileName, and
\* fileUrl is the public base URL followed by fileName.
C1_UploadSucceeds ==
    \A r \in Req :
        (Done(r) /\ GoodUpload(r) /\ served[r].op # "failed") =>
            /\ res[r].status = 200
            /\ DOMAIN res[r].body = {"message", "fileName", "fileUrl"}
            /\ served[r].op = "put"
            /\ served[r].object.Key = res[r].body.fileName
            /\ served[r].object.Body = Parts(r)[1].buffer
            /\ served[r].object.ContentType = Parts(r)[1].mimetype
            /\ res[r].body.fileUrl = PublicBase \o res[r].body.fileName

C1_Witness ==
    \E r \in Req :
        /\ Done(r) /\ GoodUpload(r) /\ res[r].status = 200
        /\ Parts(r)[1].mimetype = "image/gif"
        /\ HasKey(bucket, res[r].body.fileName)

\* C2: an upload whose file has a media type outside the allow-list is
\* answered 400 with {error}, and the store is never called for it.
C2_DisallowedTypeRejected ==
    \A r \in Req :
        (Done(r) /\ IsUpload(r)
         /\ \E i \in 1..Len(Parts(r)) :
               Parts(r)[i].mimetype \notin {"image/jpeg", "image/png", "image/gif"})
        =>  /\ res[r].status = 400
            /\ DOMAIN res[r].body = {"error"}
            /\ served[r].op = "none"

C2_Witness ==
    \E r \in Req :
        /\ Done(r) /\ IsUpload(r) /\ Len(Parts(r)) = 1
        /\ Parts(r)[1].mimetype = "image/webp"
        /\ Parts(r)[1].size = 2048
        /\ res[r].status = 400

\* C3 as claimed: every upload whose payload exceeds the size limit is
\* answered 400 with the size-limit message, without a store call.
C3_AnyOversizedGetsSizeError ==
    \A r \in Req :
        (Done(r) /\ IsUpload(r)
         /\ \E i \in 1..Len(Parts(r)) : Parts(r)[i].size > 5 * 1024 * 1024)
        =>  /\ res[r].status = 400
            /\ res[r].body = [error |-> MsgFileTooLarge]
            /\ served[r].op = "none"

\* C3, amended: an upload of one file under 'file' whose media type is
\* allowed and whose payload exceeds the size limit is answered 400 with
\* the size-limit message, without a store call; an oversized file of any
\* type is answered 400 without a store call.
C3_OversizedRejected ==
    \A r \in Req :
        (Done(r) /\ IsUpload(r)
         /\ \E i \in 1..Len(Parts(r)) : Parts(r)[i].size > 5 * 1024 * 1024)
        =>  /\ res[r].status = 400
            /\ served[r].op = "none"
            /\ (/\ Len(Parts(r)) = 1
                /\ Parts(r)[1].fieldname = "file"
                /\ Parts(r)[1].mimetype \in {"image/jpeg", "image/png", "image/gif"})
               => res[r].body = [error |-> MsgFileTooLarge]

C3_Witness ==
    \E r \in Req :
        /\ Done(r) /\ IsUpload(r) /\ Len(Parts(r)) = 1
        /\ Parts(r)[1].mimetype = "image/png"
        /\ Parts(r)[1].size > 5 * 1024 * 1024
        /\ res[r].body = [error |-> MsgFileTooLarge]

\* C4 as claimed: an upload with no file under the field 'file' is answered
\* 400 with the "no file" error, without a store call.
C4_NoFileUnderFieldGetsNoFileError ==
    \A r \in Req :
        (Done(r) /\ IsUpload(r)
         /\ \A i \in 1..Len(Parts(r)) : Parts(r)[i].fieldname # "file")
        =>  /\ res[r].status = 400
            /\ res[r].body = [error |-> MsgNoFile]
            /\ served[r].op = "none"

\* C4, amended: an upload that carries no file at all is answered 400 with
\* the "no file" error, without a store call; one whose only file is under
\* another field is answered 400 too, without a store call.
C4_NoFileRejected ==
    \A r \in Req :
        (Done(r) /\ IsUpload(r)
         /\ \A i \in 1..Len(Parts(r)) : Parts(r)[i].fieldname # "file")
        =>  /\ res[r].status = 400
            /\ DOMAIN res[r].body = {"error"}
            /\ served[r].op = "none"
            /\ Parts(r) = <<>> => res[r].body = [error |-> MsgNoFile]

C4_Witness ==
    \E r \in Req :
        /\ Done(r) /\ IsUpload(r) /\ Parts(r) = <<>>
        /\ res[r].status = 400

\* C5: a request whose store call failed is answered 500 with {error},
\* by the upload handler and by the listing handler; its answer is never
\* withheld: once the failure is back, the handler's continuation can run.
C5_StoreFailureIs500 ==
    \A r \in Req :
        served[r].op = "failed" =>
            /\ Done(r) => (res[r].status = 500 /\ DOMAIN res[r].body = {"error"})
            /\ ~Done(r) => ENABLED (UploadResume(r) \/ ListResume(r))

C5_Witness ==
    /\ \E r \in Req : Done(r) /\ IsUpload(r) /\ served[r].op = "failed"
    /\ \E r \in Req : Done(r) /\ IsList(r) /\ served[r].op = "failed"

\* C6: a listing has at most 3 entries, however many objects the store holds.
C6_AtMostThree ==
    \A r \in Req :
        (Done(r) /\ IsList(r) /\ res[r].status = 200) => Len(res[r].body) <= 3

C6_Witness ==
    \E r \in Req :
        /\ Done(r) /\ IsList(r) /\ res[r].status = 200
        /\ served[r].total > 3
        /\ Len(res[r].body) = 3

\* C7: a listing is sorted by lastModified, descending.
C7_SortedDescending ==
    \A r \in Req :
        (Done(r) /\ IsList(r) /\ res[r].status = 200) =>
            \A i \in 1..(Len(res[r].body) - 1) :
                res[r].body[i].lastModified >= res[r].body[i + 1].lastModified

\* The store listed its objects oldest first, and the listing starts with
\* two entries of different times.
C7_Witness ==
    \E r \in Req :
        /\ Done(r) /\ IsList(r) /\ res[r].status = 200
        /\ served[r].total >= 100
        /\ Len(res[r].body) >= 2
        /\ res[r].body[1].lastModified > res[r].body[2].lastModified

\* C8: a listing of an empty store (a list response without Contents) is
\* answered 200 with an empty array.
C8_EmptyStoreListsEmpty ==
    \A r \in Req :
        (Done(r) /\ IsList(r) /\ served[r].op = "list" /\ served[r].total = 0)
        => (res[r].status = 200 /\ res[r].body = <<>>)

C8_Witness ==
    \E r \in Req :
        /\ Done(r) /\ IsList(r) /\ served[r].op = "list" /\ served[r].total = 0
        /\ res[r].status = 200

\* C9 as claimed: a listing requested after an upload was answered 200, and
\* served with no other put since that upload's, starts with the uploaded
\* object, whatever the store held before.
C9_ListingStartsWithUpload ==
    \A u \in Req : \A l \in Req :
        (/\ Done(u) /\ IsUpload(u) /\ res[u].status = 200
         /\ Done(l) /\ IsList(l) /\ res[l].status = 200
         /\ u \in req[l].after
         /\ served[l].version = served[u].version)
        =>  /\ Len(res[l].body) >= 1
            /\ res[l].body[1].name = res[u].body.fileName

\* The objects of the bucket that a listing names.
Listed(body) == {i \in 1..Len(bucket) :
                    \E k \in 1..Len(body) : body[k].name = bucket[i].Key}

\* C10 as claimed: a listing is the min(3, N) most recently modified of the
\* N objects the bucket holds (stated while the bucket is as it was listed).
C10_ListingIsMostRecent ==
    \A l \in Req :
        (/\ Done(l) /\ IsList(l) /\ res[l].status = 200
         /\ served[l].version = version)
        =>  /\ Len(res[l].body) = (IF Len(bucket) < 3 THEN Len(bucket) ELSE 3)
            /\ Cardinality(Listed(res[l].body)) = Len(res[l].body)
            /\ \A i \in Listed(res[l].body) :
                  \A j \in (1..Len(bucket)) \ Listed(res[l].body) :
                      bucket[i].LastModified >= bucket[j].LastModified

\* The upload requests that passed multer and named their object.
Named(r) == local[r].fileName # <<>>

\* C11 as claimed: two uploads of the same original file name, both answered
\* 200, have two distinct keys, also when both were handled within the same
\* millisecond; the store holds an object under each, and a listing served
\* after both puts, with no put since, names both in distinct entries.
C11_RapidUploadsGetDistinctKeys ==
    \A u \in Req : \A v \in Req \ {u} :
        (/\ Done(u) /\ IsUpload(u) /\ res[u].status = 200
         /\ Done(v) /\ IsUpload(v) /\ res[v].status = 200
         /\ local[u].file.originalname = local[v].file.originalname)
        =>  /\ res[u].body.fileName # res[v].body.fileName
            /\ HasKey(bucket, res[u].body.fileName)
            /\ HasKey(bucket, res[v].body.fileName)
            /\ \A l \in Req :
                  (/\ Done(l) /\ IsList(l) /\ res[l].status = 200
                   /\ {u, v} \subseteq req[l].after
                   /\ served[l].version >= served[u].version
                   /\ served[l].version >= served[v].version
                   /\ served[l].version <= served[u].version
                      \/ served[l].version <= served[v].version)
                  => \E i \in 1..Len(res[l].body) :
                        \E j \in (1..Len(res[l].body)) \ {i} :
                            /\ res[l].body[i].name = res[u].body.fileName
                            /\ res[l].body[j].name = res[v].body.fileName

\* C12 as claimed: two listings served from the same content of the store
\* (no put between them) have the same entries in the same order, also when
\* objects share a LastModified and the store lists them in another order.
C12_ListingIdempotent ==
    \A l1 \in Req : \A l2 \in Req :
        (/\ Done(l1) /\ IsList(l1) /\ res[l1].status = 200
         /\ Done(l2) /\ IsList(l2) /\ res[l2].status = 200
         /\ served[l1].version = served[l2].version)
        => res[l1].body = res[l2].body

\* C13: every answer of GET /list-files, the 200 listing and the 500 error,
\* carries Cache-Control: no-cache, no-store, must-revalidate; Pragma:
\* no-cache; Expires: 0.
C13_ListingNeverCached ==
    \A r \in Req :
        (Done(r) /\ IsList(r)) =>
            /\ res[r].status \in {200, 500}
            /\ res[r].headers.CacheControl = "no-cache, no-store, must-revalidate"
            /\ res[r].headers.Pragma = "no-cache"
            /\ res[r].headers.Expires = "0"

C13_Witness ==
    /\ \E r \in Req : Done(r) /\ IsList(r) /\ res[r].status = 200
                      /\ res[r].headers.Expires = "0"
    /\ \E r \in Req : Done(r) /\ IsList(r) /\ res[r].status = 500
                      /\ res[r].headers.Expires = "0"

\* C14 as claimed: an object of the store is never changed or removed: in
\* every step, each object of the bucket is still there afterwards, under
\* its key, with the same content and the same content type.
C14_ObjectsNeverChange ==
    [][bucket' # bucket =>
          \A i \in 1..Len(bucket) :
              \E j \in 1..Len(bucket') :
                  /\ bucket'[j].Key = bucket[i].Key
                  /\ bucket'[j].Body = bucket[i].Body
                  /\ bucket'[j].ContentType = bucket[i].ContentType]_vars

\* C15: a request has at most one store call executed for it, and a failed
\* call is not sent again; only a put changes the bucket, by one object.  An
\* answered list request had one list call and no put; an upload answered
\* 200 had one put; an upload answered 400 had no store call.
C15_OneStoreCallPerRequest ==
    /\ [](\A r \in Req :
             Done(r) =>
                /\ IsList(r) => served[r].op \in {"list", "failed"}
                /\ (IsUpload(r) /\ res[r].status = 200) => served[r].op = "put"
                /\ (IsUpload(r) /\ res[r].status = 400) => served[r].op = "none")
    /\ [][/\ \A r \in Req :
                served'[r] # served[r] =>
                    /\ served[r].op = "none"
                    /\ version' = version + (IF served'[r].op = "put" THEN 1 ELSE 0)
                    /\ served'[r].op = "put" => IsUpload(r)
          /\ bucket' # bucket =>
                /\ version' = version + 1
                /\ Len(bucket') <= Len(bucket) + 1]_vars

C15_Witness ==
    /\ \E r \in Req : Done(r) /\ IsUpload(r) /\ served[r].op = "failed"
                      /\ version = 1
    /\ \E r \in Req : Done(r) /\ IsUpload(r) /\ res[r].status = 200

\* C16: the answer to a request whose store call failed is the same for
\* every store error: status 500 and a fixed body, for the upload and for
\* the listing.
C16_FailureAnswerIndependentOfCause ==
    \A r \in Req :
        /\ (pc[r] = "putReplied" /\ reply[r].kind = "error") =>
               /\ reply[r].error \in {"network", "auth"}
               /\ UploadResponse(local[r].fileName, reply[r]) =
                     [status |-> 500, headers |-> NoHeaders,
                      body |-> [error |-> MsgUploadFailed]]
        /\ (pc[r] = "listReplied" /\ reply[r].kind = "error") =>
               /\ reply[r].error \in {"network", "auth"}
               /\ ListResponse(reply[r]) =
                     [status |-> 500, headers |-> NoHeaders,
                      body |-> [error |-> MsgListFailed]]
        /\ (Done(r) /\ served[r].op = "failed") =>
               /\ res[r].status = 500
               /\ res[r].body = [error |-> IF IsUpload(r) THEN MsgUploadFailed
                                           ELSE MsgListFailed]

\* Two uploads whose puts failed for different reasons, one answered.
C16_Witness ==
    \E r \in Req : \E q \in Req :
        /\ Done(r) /\ IsUpload(r) /\ served[r].op = "failed"
        /\ res[r].status = 500
        /\ pc[q] = "putReplied" /\ reply[q].kind = "error"
        /\ reply[q].error = "auth"

\* C17: the key of an upload is the decimal millisecond timestamp, a
\* hyphen and the original file name; two uploads have the same key exactly
\* when they have the same timestamp and the same original file name.
C17_KeyIdentifiesTimeAndName ==
    \A u \in Req : \A v \in Req :
        (Named(u) /\ Named(v)) =>
            /\ local[u].fileName =
                  Digits(local[u].at) \o <<"-">> \o local[u].file.originalname
            /\ (local[u].fileName = local[v].fileName) <=>
                  (/\ local[u].at = local[v].at
                   /\ local[u].file.originalname = local[v].file.originalname)

\* Two uploads of the same name in different milliseconds (different keys).
C17_Witness ==
    \E u \in Req : \E v \in Req :
        /\ Named(u) /\ Named(v)
        /\ local[u].file.originalname = local[v].file.originalname
        /\ local[u].at # local[v].at
        /\ local[u].fileName # local[v].fileName

\* C18: when the listing handler answers 200, every entry is made of one
\* object of the page the store returned (name its Key, url the public base
\* URL followed by the Key, size its Size, lastModified its LastModified),
\* and no two entries are made of the same object.
C18_EntriesAreStoreObjects ==
    [][\A r \in Req :
          (pc[r] = "listReplied" /\ pc'[r] = "done" /\ reply[r].kind = "ok") =>
              LET page == IF "Contents" \in DOMAIN reply[r].response
                          THEN reply[r].response.Contents ELSE <<>>
                  body == res'[r].body
              IN  /\ res'[r].status = 200
                  /\ \A i \in 1..Len(body) :
                        /\ DOMAIN body[i] = {"name", "url", "size", "lastModified"}
                        /\ \E j \in 1..Len(page) :
                              /\ body[i].name = page[j].Key
                              /\ body[i].url = PublicBase \o page[j].Key
                              /\ body[i].size = page[j].Size
                              /\ body[i].lastModified = page[j].LastModified
                  /\ \A i \in 1..Len(body) : \A k \in 1..Len(body) :
                        body[i].name = body[k].name => i = k]_vars

C18_Witness ==
    \E r \in Req :
        /\ Done(r) /\ IsList(r) /\ res[r].status = 200
        /\ served[r].total = 3
        /\ Len(res[r].body) = 3
        /\ res[r].body[1].url = PublicBase \o res[r].body[1].name

\* C19: once every request is answered, each upload answered 200 whose key
\* no other upload has holds its own bytes and content type in the store
\* under its key, however the requests interleaved; and a request is
\* answered 500 only when its own store call failed, 200 when it succeeded.
C19_RequestsAreIsolated ==
    /\ (\A r \in Req : Done(r)) =>
           \A u \in Req :
               (/\ IsUpload(u) /\ res[u].status = 200
                /\ \A v \in Req \ {u} : local[v].fileName # local[u].fileName)
               =>  /\ HasKey(bucket, res[u].body.fileName)
                   /\ ObjectAt(bucket, res[u].body.fileName).Body
                         = Parts(u)[1].buffer
                   /\ ObjectAt(bucket, res[u].body.fileName).ContentType
                         = Parts(u)[1].mimetype
    /\ \A r \in Req :
           Done(r) =>
               /\ res[r].status = 500 <=> served[r].op = "failed"
               /\ served[r].op \in {"put", "list"} <=> res[r].status = 200

\* Two uploads in flight together, the later one served first; and an upload
\* that succeeds beside one that fails.
C19_Witness ==
    /\ \A r \in Req : Done(r)
    /\ IsUpload(1) /\ IsUpload(2)
    /\ res[1].status = 200 /\ res[2].status = 200
    /\ local[1].fileName # local[2].fileName
    /\ served[1].version > served[2].version

\* C20: an upload that carries a file under a field other than 'file', or
\* more than one file under 'file', is answered 400 with {error} and has
\* no store call.
C20_ExactlyOneFileUnderField ==
    \A r \in Req :
        (Done(r) /\ IsUpload(r)
         /\ \/ \E i \in 1..Len(Parts(r)) : Parts(r)[i].fieldname # "file"
            \/ Cardinality({i \in 1..Len(Parts(r)) :
                               Parts(r)[i].fieldname = "file"}) > 1)
        =>  /\ res[r].status = 400
            /\ DOMAIN res[r].body = {"error"}
            /\ served[r].op = "none"
            /\ version = Cardinality({q \in Req : served[q].op = "put"})

C20_Witness ==
    /\ \E r \in Req : Done(r) /\ IsUpload(r) /\ Len(Parts(r)) = 2
                      /\ res[r].status = 400
    /\ \E r \in Req : Done(r) /\ IsUpload(r) /\ Len(Parts(r)) = 1
                      /\ Parts(r)[1].fieldname = "avatar"
                      /\ res[r].status = 400

\* C21: the media type is checked before the size: an upload of a file
\* under 'file' whose declared media type is outside the allow-list is
\* answered with the unsupported-type error whatever its size, never with
\* the size-limit error, and nothing of it reaches the store.
C21_TypeCheckedBeforeSize ==
    \A r \in Req :
        (/\ Done(r) /\ IsUpload(r) /\ Len(Parts(r)) = 1
         /\ Parts(r)[1].fieldname = "file"
         /\ Parts(r)[1].mimetype \notin {"image/jpeg", "image/png", "image/gif"})
        =>  /\ res[r].status = 400
            /\ res[r].body = [error |-> MsgUnsupportedType]
            /\ res[r].body # [error |-> MsgFileTooLarge]
            /\ served[r].op = "none"

\* A file of a disallowed type that is over the size limit too.
C21_Witness ==
    \E r \in Req :
        /\ Done(r) /\ IsUpload(r) /\ Len(Parts(r)) = 1
        /\ Parts(r)[1].mimetype = "image/webp"
        /\ Parts(r)[1].size > 5 * 1024 * 1024
        /\ res[r].body = [error |-> MsgUnsupportedType]

\* C22 as claimed: when the port tried is in use, the next attempt is made
\* with the number one greater, for the default 3000 and for a PORT of the
\* environment, and the attempts go on until a port is bound; a server that
\* failed with another error is not followed by another attempt.
C22_FallsBackToNextPort ==
    /\ ~thrown
    /\ \A i \in 2..Len(servers) :
          /\ servers[i - 1].code = "EADDRINUSE"
          /\ ToNumber(servers[i].port) = ToNumber(servers[i - 1].port) + 1
    /\ \A i \in 1..Len(servers) :
          servers[i].state = "failed" =>
              (servers[i].code = "EADDRINUSE" <=> i < Len(servers))

\* C23 as claimed: a call of loadFiles makes 3 attempts at most.
C23_AtMostThreeAttempts ==
    \A c \in Load : loads[c].attempts <= 3

\* C23, amended: a call of loadFiles makes 4 attempts at most (the first and
\* 3 more), each further one scheduled 500 ms after a failed one; the failure
\* of the last attempt puts the load-failed message into the gallery and
\* schedules nothing, after which the chain takes no step; every chain ends.
C23_RetriesBoundedAndEnd ==
    /\ [](\A c \in Load :
             /\ loads[c].attempts <= 4
             /\ loads[c].pc # "idle" => loads[c].attempts + loads[c].retryCount <= 4
             /\ loads[c].retryCount >= 0
             /\ loads[c].pc = "waiting" => loads[c].delay = 500
             /\ loads[c].pc = "failed" => loads[c].attempts = 4)
    /\ [][\A c \in Load :
             /\ (loads[c].pc # "failed" /\ loads'[c].pc = "failed") =>
                    galleryGrid' = Message(MsgLoadFailed)
             /\ loads[c].pc \in {"failed", "returned"} => loads'[c] = loads[c]]_vars
    /\ <>(\A c \in Load : loads[c].pc \in {"failed", "returned"})

C23_Witness ==
    \E c \in Load :
        /\ loads[c].pc = "failed"
        /\ loads[c].attempts = 4
        /\ galleryGrid = Message(MsgLoadFailed)

\* C24 as claimed: when the listing has 1 or 2 files, the invocation of
\* loadFiles that received it returns with the gallery set to one item per
\* file followed by empty items, 3 in all, and does not go to its catch.
C24_FewFilesGetPlaceholders ==
    [][\A c \in Load :
          (/\ loads[c].pc = "settled" /\ loads'[c].pc # "settled"
           /\ loads[c].fetched.type = "array"
           /\ Len(loads[c].fetched.items) \in {1, 2})
          =>  /\ loads'[c].pc = "returned"
              /\ galleryGrid' =
                    Items([i \in 1..3 |->
                             IF i <= Len(loads[c].fetched.items)
                             THEN [class |-> "gallery-item",
                                   url |-> loads[c].fetched.items[i].url]
                             ELSE [class |-> "gallery-item empty",
                                   url |-> <<>>]])]_vars

\* C25 as claimed: a server of the process that is listening is the one
\* index.js exports, also after a fallback to a later port; once before-quit
\* has run, no server of the process is listening.
C25_ExportedServerIsListening ==
    /\ \A i \in 1..Len(servers) :
          servers[i].state = "listening" => i = exported
    /\ quit => \A i \in 1..Len(servers) : servers[i].state # "listening"

\* C26 as claimed: the URL the window loads has the port on which the
\* process's server is listening.
C26_WindowLoadsBoundPort ==
    win # NoUrl =>
        \A i \in 1..Len(servers) :
            servers[i].state = "listening" =>
                ToNumber(servers[i].port) = win.port

====
